---- MODULE Spec2Model ----
(***************************************************************************)
(* A model of src/external/parsing.rs of tach: the extraction of the       *)
(* declared dependency names and of the source roots from a pyproject.toml *)
(* value tree, and the requirements.txt parser.                            *)
(*                                                                         *)
(* Strings whose characters the code inspects (dependency specifiers,      *)
(* requirements lines, package names) are sequences of one-character       *)
(* strings; group names, which the code only compares, are TLA+ strings.   *)
(* A TOML value is a record tagged by t: "none" (key absent), "str",       *)
(* "arr", "tbl", "inc" (a table with a string include-group key) and       *)
(* "other" (any value of another type).                                    *)
(***************************************************************************)
EXTENDS Integers, Sequences, FiniteSets, TLC

VARIABLES
    operation,                  \* the function called
    manifest,                   \* Spec, SpecPaths: the parsed toml_value (and src_exists)
    requirements,               \* Spec: the lines of a requirements file
    pc,                         \* position in the operation being run
    include_dependency_groups,  \* parse_pyproject_toml: local, line 20
    dependencies,               \* extract_dependencies: local HashSet, line 58
    warned,                     \* whether the eprintln! of line 77 ran
    groups_to_process,          \* extract_dependency_groups: rest of the loop of line 144
    visited,                    \* extract_dependency_groups: local HashSet, line 145
    stack,                      \* the active calls of extract_group_deps, innermost last
    entered,                    \* history: the groups whose array the loop of line 172 was
                                \* entered for, in order, since line 145 last ran
    result,                     \* what the operation returned
    name,                       \* SpecNorm: the argument of normalize_package_name
    normalized,                 \* SpecNorm: normalize_package_name(name)
    renormalized                \* SpecNorm: normalize_package_name(normalized)

vars == <<operation, manifest, requirements, entered, pc, include_dependency_groups, dependencies, warned,
          groups_to_process, visited, stack, result, name, normalized, renormalized>>

(***************************************************************************)
(* Bounds of the model.                                                    *)
(***************************************************************************)
\* the longest generated argument of normalize_package_name
MaxNameLen == 4
\* the most include-group entries in a generated dependency-group table
MaxIncludes == 3
\* the longest generated include_dependency_groups list
MaxSel == 2
\* the most entries in a generated dependency list or table
MaxDeps == 2
\* the most lines in a generated requirements file
MaxLines == 2
\* the most entries in a generated packages list
MaxPackages == 2

None == [t |-> "none"]
Other == [t |-> "other"]
Str(s) == [t |-> "str", s |-> s]
Arr(items) == [t |-> "arr", items |-> items]
Tbl(keys) == [t |-> "tbl", keys |-> keys]
Inc(g) == [t |-> "inc", g |-> g]

Range(f) == {f[i] : i \in DOMAIN f}

\* all sequences over S of length at most n
SeqsUpTo(S, n) == UNION {[1..k -> S] : k \in 0..n}

(***************************************************************************)
(* Characters.                                                             *)
(***************************************************************************)
UpperChars == <<"A","B","C","D","E","F","G","H","I","J","K","L","M",
                "N","O","P","Q","R","S","T","U","V","W","X","Y","Z">>
LowerChars == <<"a","b","c","d","e","f","g","h","i","j","k","l","m",
                "n","o","p","q","r","s","t","u","v","w","x","y","z">>

\* U+1D400 MATHEMATICAL BOLD CAPITAL A: category Lu (char::is_uppercase is
\* true) with no lowercase mapping in the Unicode character database
BoldCapitalA == "U+1D400"

\* char::is_uppercase
IsUppercase(c) == c \in Range(UpperChars) \/ c = BoldCapitalA

\* whether char::to_lowercase changes c
HasLowercaseMapping(c) == c \in Range(UpperChars)

\* char::is_whitespace
IsWhitespace(c) == c \in {" ", "\t", "\n", "\r", "\f"}

\* char::to_lowercase, one character
ToLowercaseChar(c) ==
    IF c \in Range(UpperChars)
    THEN LowerChars[CHOOSE i \in DOMAIN UpperChars : UpperChars[i] = c]
    ELSE c

\* str::to_lowercase
ToLowercase(s) == [i \in DOMAIN s |-> ToLowercaseChar(s[i])]

(***************************************************************************)
(* extract_package_name, normalize_package_name                            *)
(***************************************************************************)
\* the separators of extract_package_name, line 198
NameDelimiters == {" ", "=", "<", ">", "~", ";", "["}

\* extract_package_name: the part before the first delimiter
ExtractPackageName(dep_str) ==
    LET hits == {i \in DOMAIN dep_str : dep_str[i] \in NameDelimiters}
    IN  IF hits = {} THEN dep_str
        ELSE LET first == CHOOSE i \in hits : \A j \in hits : i <= j
             IN  SubSeq(dep_str, 1, first - 1)

\* the closure given to split, line 207
IsSeparator(c) == IsWhitespace(c) \/ c = "-" \/ c = "_"

RECURSIVE SplitFrom(_, _, _, _)
SplitFrom(s, i, cur, acc) ==
    IF i > Len(s) THEN Append(acc, cur)
    ELSE IF IsSeparator(s[i]) THEN SplitFrom(s, i + 1, <<>>, Append(acc, cur))
    ELSE SplitFrom(s, i + 1, Append(cur, s[i]), acc)

\* str::split with the closure: one segment per separator, plus one
Split(s) == SplitFrom(s, 1, <<>>, <<>>)

RECURSIVE Join(_)
\* join("_")
Join(segs) ==
    IF segs = <<>> THEN <<>>
    ELSE IF Len(segs) = 1 THEN segs[1]
    ELSE segs[1] \o <<"_">> \o Join(Tail(segs))

NonEmpty(seg) == seg # <<>>

\* the mutant of NormalizePackageName that keeps the empty segments
NormalizeKeepEmpty(n) == Join(Split(ToLowercase(n)))

\* normalize_package_name
NormalizePackageName(n) == Join(SelectSeq(Split(ToLowercase(n)), NonEmpty))

(***************************************************************************)
(* extract_tach_include_dependency_groups, extract_deps_from_value         *)
(***************************************************************************)
\* the mutant of ExtractTachIncludeDependencyGroups whose default is no group
IncludeGroupsDefaultEmpty(toml_value) ==
    LET g == toml_value.include_dependency_groups
    IN  IF g.t = "arr"
        THEN LET strs == SelectSeq(g.items, LAMBDA v : v.t = "str")
             IN  [i \in DOMAIN strs |-> strs[i].s]
        ELSE <<>>

\* extract_tach_include_dependency_groups: the string elements of the array
\* tool.tach.external.include_dependency_groups, ["dev"] when it is no array
ExtractTachIncludeDependencyGroups(toml_value) ==
    LET g == toml_value.include_dependency_groups
    IN  IF g.t = "arr"
        THEN LET strs == SelectSeq(g.items, LAMBDA v : v.t = "str")
             IN  [i \in DOMAIN strs |-> strs[i].s]
        ELSE <<"dev">>

\* EXCLUDED_DEPS, line 105, and REQUIREMENTS_TXT_EXCLUDED_DEPS, line 266
EXCLUDED_DEPS ==
    { <<"p","y","t","h","o","n">>,
      <<"p","o","e","t","r","y">>,
      <<"p","o","e","t","r","y","-","c","o","r","e">> }

\* the strings a dependency value lists: the string elements of an array, the
\* keys of a table, nothing for another value
DepStrings(deps) ==
    IF deps.t = "arr" THEN {v.s : v \in {w \in Range(deps.items) : w.t = "str"}}
    ELSE IF deps.t = "tbl" THEN deps.keys
    ELSE {}

\* extract_deps_from_value: the set after the call
ExtractDepsFromValue(deps_set, deps) ==
    IF deps.t = "arr"
    THEN deps_set \cup
         {n \in {NormalizePackageName(ExtractPackageName(v.s)) :
                    v \in {w \in Range(deps.items) : w.t = "str"}} :
            n \notin EXCLUDED_DEPS}
    ELSE IF deps.t = "tbl"
    THEN deps_set \cup
         {n \in {NormalizePackageName(ExtractPackageName(k)) : k \in deps.keys} :
            n \notin EXCLUDED_DEPS}
    ELSE deps_set

\* the mutant of BaseDependencies that reads the Poetry table whenever it is present
BaseDependenciesBoth(toml_value) ==
    LET project == ExtractDepsFromValue({}, toml_value.project_dependencies)
    IN  IF toml_value.poetry_dependencies.t # "none"
        THEN ExtractDepsFromValue(project, toml_value.poetry_dependencies)
        ELSE project

\* extract_dependencies, lines 58-89: the set before the dependency groups
BaseDependencies(toml_value) ==
    LET has_project_deps == toml_value.project_dependencies.t # "none"
        has_poetry_deps == toml_value.poetry_dependencies.t # "none"
        project == ExtractDepsFromValue({}, toml_value.project_dependencies)
    IN  IF has_project_deps /\ has_poetry_deps THEN project
        ELSE IF has_poetry_deps
        THEN ExtractDepsFromValue(project, toml_value.poetry_dependencies)
        ELSE project

\* extract_dependencies, line 76: whether the warning is printed
BothFormatsWarning(toml_value) ==
    /\ toml_value.project_dependencies.t # "none"
    /\ toml_value.poetry_dependencies.t # "none"

(***************************************************************************)
(* extract_source_paths                                                    *)
(***************************************************************************)
\* Path::join with a relative path: a path is its sequence of components, and
\* joining the empty string adds none
PathJoin(path, component) == IF component = "" THEN path ELSE Append(path, component)

project_root == <<"root">>

RECURSIVE SetuptoolsPaths(_)
\* lines 217-226: one path per string element of tool.setuptools.packages
SetuptoolsPaths(items) ==
    IF items = <<>> THEN <<>>
    ELSE (IF Head(items).t = "str" THEN <<PathJoin(project_root, Head(items).s)>> ELSE <<>>)
         \o SetuptoolsPaths(Tail(items))

RECURSIVE PoetryPaths(_)
\* lines 229-241: one path per element of tool.poetry.packages with a string include
PoetryPaths(items) ==
    IF items = <<>> THEN <<>>
    ELSE LET package == Head(items)
             from == IF package.from.t = "str" THEN package.from.s ELSE ""
         IN  (IF package.include.t = "str"
              THEN <<PathJoin(PathJoin(project_root, from), package.include.s)>>
              ELSE <<>>)
             \o PoetryPaths(Tail(items))

\* lines 217-251: what the three build-backend sections push, in the order of the code
ConventionPaths(toml_value) ==
    (IF toml_value.setuptools_packages.t = "arr"
     THEN SetuptoolsPaths(toml_value.setuptools_packages.items) ELSE <<>>)
    \o (IF toml_value.poetry_packages.t = "arr"
        THEN PoetryPaths(toml_value.poetry_packages.items) ELSE <<>>)
    \o (IF toml_value.maturin_python_source.t = "str"
        THEN <<PathJoin(project_root, toml_value.maturin_python_source.s)>> ELSE <<>>)

\* lines 254-261: root/src when it exists, else the root
FallbackPath(toml_value) ==
    IF toml_value.src_exists THEN PathJoin(project_root, "src") ELSE project_root

\* the mutant of ExtractSourcePaths that always adds the conventional location
ExtractSourcePathsAlwaysFallback(toml_value) ==
    Append(ConventionPaths(toml_value), FallbackPath(toml_value))

\* extract_source_paths
ExtractSourcePaths(toml_value) ==
    LET source_paths == ConventionPaths(toml_value)
    IN  IF source_paths = <<>> THEN <<FallbackPath(toml_value)>> ELSE source_paths

(***************************************************************************)
(* parse_requirements_txt                                                  *)
(***************************************************************************)
RECURSIVE TrimStart(_)
TrimStart(s) == IF s # <<>> /\ IsWhitespace(Head(s)) THEN TrimStart(Tail(s)) ELSE s

RECURSIVE TrimEnd(_)
TrimEnd(s) ==
    IF s # <<>> /\ IsWhitespace(s[Len(s)]) THEN TrimEnd(SubSeq(s, 1, Len(s) - 1)) ELSE s

\* str::trim
Trim(s) == TrimEnd(TrimStart(s))

\* lines 274-282: the lines the loop skips
SkippedLine(line) == line = <<>> \/ Head(line) = "#" \/ Head(line) = "-"

\* parse_requirements_txt, given the lines of the file
ParseRequirementsTxt(lines) ==
    LET kept == {l \in {Trim(raw) : raw \in Range(lines)} : ~SkippedLine(l)}
    IN  {n \in {NormalizePackageName(ExtractPackageName(l)) : l \in kept} :
            n \notin EXCLUDED_DEPS}

(***************************************************************************)
(* The inputs.                                                             *)
(***************************************************************************)
S_requests == <<"r","e","q","u","e","s","t","s">>
S_pytest == <<"p","y","t","e","s","t">>
S_coverage == <<"c","o","v","e","r","a","g","e">>
S_ruff == <<"r","u","f","f">>
S_mypy == <<"m","y","p","y">>
S_python == <<"p","y","t","h","o","n">>
S_Python_ge == <<"P","y","t","h","o","n",">","=","3">>
S_poetry == <<"p","o","e","t","r","y">>
S_poetry_core == <<"p","o","e","t","r","y","-","c","o","r","e">>
S_My_Package == <<"M","y","-","P","a","c","k","a","g","e">>
S_my_package_sp == <<"m","y"," ","p","a","c","k","a","g","e">>
S_MY__PACKAGE == <<"M","Y","_","_","P","A","C","K","A","G","E">>
S_my_package == <<"m","y","_","p","a","c","k","a","g","e">>

\* a manifest with none of the keys the code reads, in a directory without src
EmptyManifest ==
    [ project_dependencies |-> None,        \* project.dependencies
      poetry_dependencies |-> None,         \* tool.poetry.dependencies
      dependency_groups |-> None,           \* dependency-groups
      include_dependency_groups |-> None,   \* tool.tach.external.include_dependency_groups
      setuptools_packages |-> None,         \* tool.setuptools.packages
      poetry_packages |-> None,             \* tool.poetry.packages
      maturin_python_source |-> None,       \* tool.maturin.python-source
      src_exists |-> FALSE ]                \* whether root/src exists on disk

\* the dependency-groups table with these groups
Groups(table) == [t |-> "tbl", groups |-> table]

\* an array of strings
StrArr(strs) == Arr([i \in DOMAIN strs |-> Str(strs[i])])

\* --- the generated tables of dependency groups: three groups, each its own
\* literal entry followed by its include-group entries
GraphGroups == {"dev", "a", "b"}
\* the names an include-group entry may give; "zz" is in no table
GraphTargets == {"a", "b", "zz"}
\* the names a selection may list
GraphSelected == {"a", "zz", "all"}

GroupLiteral(g) == IF g = "dev" THEN S_ruff ELSE IF g = "a" THEN S_My_Package ELSE S_python

\* the include-group entries of group g, in the order of the edge list
IncludesOf(edges, g) ==
    LET mine == SelectSeq(edges, LAMBDA e : e[1] = g)
    IN  [i \in DOMAIN mine |-> Inc(mine[i][2])]

\* the table of an edge list
GraphTable(edges) ==
    [g \in GraphGroups |-> Arr(<<Str(GroupLiteral(g))>> \o IncludesOf(edges, g))]

\* the selections: the key omitted, or a list of names
GraphSelections == {None} \cup {StrArr(l) : l \in SeqsUpTo(GraphSelected, MaxSel)}

SelectionSize(sel) == IF sel.t = "arr" THEN Len(sel.items) ELSE 0

\* the include-group entries and the listed names number MaxIncludes + 1 together
\* at most
GraphManifests ==
    { [EmptyManifest EXCEPT !.project_dependencies = StrArr(<<S_requests>>),
                            !.dependency_groups = Groups(GraphTable(es[1])),
                            !.include_dependency_groups = es[2]] :
        es \in { x \in SeqsUpTo(GraphGroups \X GraphTargets, MaxIncludes) \X GraphSelections :
                    Len(x[1]) + SelectionSize(x[2]) <= MaxIncludes + 1 } }

\* --- the generated dependency lists and tables
SpecifierPool == {S_requests, S_Python_ge, S_poetry, S_poetry_core, S_My_Package}

DepValues(n) ==
    {None, Other}
    \cup {Arr(items) : items \in SeqsUpTo({Str(x) : x \in SpecifierPool} \cup {Other}, n)}
    \cup {Tbl(keys) : keys \in {k \in SUBSET SpecifierPool : Cardinality(k) <= n}}

DepManifests ==
    { [EmptyManifest EXCEPT !.project_dependencies = pd[1], !.poetry_dependencies = pd[2],
                            !.include_dependency_groups = StrArr(<<>>)] :
        pd \in (DepValues(MaxDeps) \X {None}) \cup ({None} \X DepValues(MaxDeps))
               \cup (DepValues(1) \X DepValues(1)) }

\* --- manifests of the tests and of the documentation
\* tests::test_dependency_groups_default_dev
DefaultDevManifest ==
    [EmptyManifest EXCEPT
        !.project_dependencies = StrArr(<<S_requests>>),
        !.dependency_groups = Groups([g \in {"test", "dev"} |->
            IF g = "test" THEN StrArr(<<S_pytest, S_coverage>>)
            ELSE StrArr(<<S_ruff, S_mypy>>)])]

\* a diamond: top includes b and c, b and c include d
DiamondManifest ==
    [EmptyManifest EXCEPT
        !.dependency_groups = Groups([g \in {"top", "b", "c", "d"} |->
            IF g = "top" THEN Arr(<<Str(S_pytest), Inc("b"), Inc("c")>>)
            ELSE IF g = "b" THEN Arr(<<Str(S_ruff), Inc("d")>>)
            ELSE IF g = "c" THEN Arr(<<Str(S_mypy), Inc("d")>>)
            ELSE Arr(<<Str(S_coverage)>>)]),
        !.include_dependency_groups = StrArr(<<"top">>)]

\* values of other TOML types where the code expects a table, an array or a string
OddManifests ==
    { [EmptyManifest EXCEPT !.dependency_groups = Other],
      [EmptyManifest EXCEPT !.dependency_groups = Groups([g \in {"dev"} |-> Other])],
      [EmptyManifest EXCEPT !.dependency_groups =
            Groups([g \in {"dev"} |-> Arr(<<Other, Str(S_ruff), Other>>)])],
      [EmptyManifest EXCEPT !.dependency_groups = Groups([g \in {"dev"} |-> StrArr(<<S_ruff>>)]),
                            !.include_dependency_groups = Other],
      [EmptyManifest EXCEPT !.dependency_groups =
            Groups([g \in {"dev", "a"} |-> StrArr(<<GroupLiteral(g)>>)]),
                            !.include_dependency_groups = Arr(<<Other, Str("a")>>)] }

Manifests ==
    GraphManifests \cup DepManifests \cup OddManifests \cup {DefaultDevManifest, DiamondManifest}

\* --- the generated requirements files
LinePool ==
    { S_requests, S_poetry_core, S_poetry, <<>>, <<" ", "P","y","t","h","o","n", " ">>,
      <<"#", " ", "x">>, <<"-", "r", " ", "x">>, <<"M","y","_","P","k","g","=","=","1">> }

RequirementsFiles == SeqsUpTo(LinePool, MaxLines)

(***************************************************************************)
(* parse_pyproject_toml, one step per statement of extract_dependencies,   *)
(* extract_dependency_groups and extract_group_deps.                       *)
(***************************************************************************)
Idle == <<>>

CircularDependencyGroup(group) ==
    [kind |-> "CircularDependencyGroup", group |-> group]

MissingDependencyGroup(included, from_group) ==
    [kind |-> "MissingDependencyGroup", included |-> included, from_group |-> from_group]

\* a frame of extract_group_deps: its group_name and the index of the next element
\* of group_array, 0 before line 158 has run
Frame(group_name) == [group_name |-> group_name, item |-> 0]

\* the dependency-groups table as a function, defined when it is a table
GroupTable == manifest.dependency_groups.groups

HasGroupTable == manifest.dependency_groups.t = "tbl"

\* lines 164-170: whether the name is a key of the table whose value is an array
HasArray(group_name) ==
    IF group_name \in DOMAIN GroupTable THEN GroupTable[group_name].t = "arr" ELSE FALSE

\* the innermost active call
Top == stack[Len(stack)]

\* group_array of the innermost call, defined after line 170
GroupArray == GroupTable[Top.group_name].items

\* all orders of a finite set
Orders(S) == {f \in [1..Cardinality(S) -> S] : \A i, j \in DOMAIN f : f[i] = f[j] => i = j}

\* replace the innermost frame
WithTop(frame) == [stack EXCEPT ![Len(stack)] = frame]

\* the ? of lines 146, 186 and 97 and the one of line 21: the error reaches the caller
Fail(error) ==
    /\ result' = [ok |-> FALSE, error |-> error]
    /\ pc' = "done"
    /\ stack' = <<>>

\* return Ok(()) from the innermost call of extract_group_deps
ReturnOk ==
    /\ stack' = SubSeq(stack, 1, Len(stack) - 1)
    /\ pc' = IF Len(stack) = 1 THEN "groups_loop" ELSE "extract_group_deps"
    /\ UNCHANGED result

\* the mutant of VisitedInsertFails that never reports a revisit
VisitedInsertNeverFails(group_name) == FALSE

\* line 158: whether visited.insert returns false
VisitedInsertFails(group_name) == group_name \in visited

\* the mutant of IncludedGroupMissing that accepts every name
IncludedGroupNeverMissing(included_group) == FALSE

\* line 180: !groups.contains_key(included_group)
IncludedGroupMissing(included_group) == included_group \notin DOMAIN GroupTable

\* the mutant of GroupsToProcess that ignores the "all" keyword
GroupsToProcessListed == {include_dependency_groups}

\* the mutant of GroupOrders that takes every selection for "all"
GroupOrdersAllKeys(groups, include_groups) == Orders(DOMAIN groups)

\* lines 137-142 for any table and selection: the orders in which the loop may visit
\* the groups; the order of the keys of the table is the map's
GroupOrders(groups, include_groups) ==
    IF \E i \in DOMAIN include_groups : include_groups[i] = "all"
    THEN Orders(DOMAIN groups)
    ELSE {include_groups}

\* lines 137-142: groups_to_process of the run
GroupsToProcess == GroupOrders(GroupTable, include_dependency_groups)

\* lines 19-20
ParsePyprojectToml ==
    /\ pc = "parse_pyproject_toml"
    /\ include_dependency_groups' = ExtractTachIncludeDependencyGroups(manifest)
    /\ pc' = "extract_dependencies"
    /\ UNCHANGED <<entered, operation, manifest, requirements, dependencies, warned, groups_to_process,
                   visited, stack, result, name, normalized, renormalized>>

\* extract_dependencies, lines 58-89
ExtractBaseDependencies ==
    /\ pc = "extract_dependencies"
    /\ dependencies' = BaseDependencies(manifest)
    /\ warned' = BothFormatsWarning(manifest)
    /\ pc' = "dependency_groups"
    /\ UNCHANGED <<entered, operation, manifest, requirements, include_dependency_groups, groups_to_process,
                   visited, stack, result, name, normalized, renormalized>>

\* lines 92-96 when a condition fails: no group is read
SkipDependencyGroups ==
    /\ pc = "dependency_groups"
    /\ include_dependency_groups = <<>> \/ ~HasGroupTable
    /\ pc' = "source_paths"
    /\ UNCHANGED <<entered, operation, manifest, requirements, include_dependency_groups, dependencies, warned,
                   groups_to_process, visited, stack, result, name, normalized,
                   renormalized>>

\* lines 92-97 and 137-142: the call of extract_dependency_groups
EnterDependencyGroups ==
    /\ pc = "dependency_groups"
    /\ include_dependency_groups # <<>>
    /\ HasGroupTable
    /\ groups_to_process' \in GroupsToProcess
    /\ pc' = "groups_loop"
    /\ UNCHANGED <<entered, operation, manifest, requirements, include_dependency_groups, dependencies, warned,
                   visited, stack, result, name, normalized, renormalized>>

\* lines 144-146: the next top-level group, with a new visited set
ResolveNextGroup ==
    /\ pc = "groups_loop"
    /\ groups_to_process # <<>>
    /\ visited' = {}
    /\ stack' = <<Frame(Head(groups_to_process))>>
    /\ groups_to_process' = Tail(groups_to_process)
    /\ pc' = "extract_group_deps"
    /\ entered' = <<>>
    /\ UNCHANGED <<operation, manifest, requirements, include_dependency_groups, dependencies, warned,
                   result, name, normalized, renormalized>>

\* line 148, then line 101
GroupsDone ==
    /\ pc = "groups_loop"
    /\ groups_to_process = <<>>
    /\ pc' = "source_paths"
    /\ UNCHANGED <<entered, operation, manifest, requirements, include_dependency_groups, dependencies, warned,
                   groups_to_process, visited, stack, result, name, normalized,
                   renormalized>>

\* lines 158-162: the group is in visited already
GroupRevisited ==
    /\ pc = "extract_group_deps"
    /\ Top.item = 0
    /\ VisitedInsertFails(Top.group_name)
    /\ Fail(CircularDependencyGroup(Top.group_name))
    /\ UNCHANGED <<entered, operation, manifest, requirements, include_dependency_groups, dependencies, warned,
                   groups_to_process, visited, name, normalized, renormalized>>

\* lines 158-170: the group is marked, and is no key of the table or no array
GroupWithoutArray ==
    /\ pc = "extract_group_deps"
    /\ Top.item = 0
    /\ ~VisitedInsertFails(Top.group_name)
    /\ ~HasArray(Top.group_name)
    /\ visited' = visited \cup {Top.group_name}
    /\ ReturnOk
    /\ UNCHANGED <<entered, operation, manifest, requirements, include_dependency_groups, dependencies, warned,
                   groups_to_process, name, normalized, renormalized>>

\* lines 158-172: the group is marked and its array is entered
GroupEntered ==
    /\ pc = "extract_group_deps"
    /\ Top.item = 0
    /\ ~VisitedInsertFails(Top.group_name)
    /\ HasArray(Top.group_name)
    /\ visited' = visited \cup {Top.group_name}
    /\ stack' = WithTop([Top EXCEPT !.item = 1])
    /\ entered' = Append(entered, Top.group_name)
    /\ UNCHANGED <<operation, manifest, requirements, pc, include_dependency_groups, dependencies,
                   warned, groups_to_process, result, name, normalized, renormalized>>

\* whether the innermost call is at an element of its array
AtItem == pc = "extract_group_deps" /\ Top.item >= 1 /\ Top.item <= Len(GroupArray)

\* line 174: the element is a string
AtStringItem == AtItem /\ GroupArray[Top.item].t = "str"

\* lines 174-177: a string
ItemString ==
    /\ AtStringItem
    /\ dependencies' =
          dependencies \cup {NormalizePackageName(ExtractPackageName(GroupArray[Top.item].s))}
    /\ stack' = WithTop([Top EXCEPT !.item = @ + 1])
    /\ UNCHANGED <<entered, operation, manifest, requirements, pc, include_dependency_groups, warned,
                   groups_to_process, visited, result, name, normalized, renormalized>>

\* lines 178-185: an include-group naming no group of the table
ItemIncludeMissing ==
    /\ AtItem
    /\ GroupArray[Top.item].t = "inc"
    /\ IncludedGroupMissing(GroupArray[Top.item].g)
    /\ Fail(MissingDependencyGroup(GroupArray[Top.item].g, Top.group_name))
    /\ UNCHANGED <<entered, operation, manifest, requirements, include_dependency_groups, dependencies, warned,
                   groups_to_process, visited, name, normalized, renormalized>>

\* lines 178-186: an include-group naming a group of the table: the recursive call
ItemInclude ==
    /\ AtItem
    /\ GroupArray[Top.item].t = "inc"
    /\ ~IncludedGroupMissing(GroupArray[Top.item].g)
    /\ stack' = Append(WithTop([Top EXCEPT !.item = @ + 1]), Frame(GroupArray[Top.item].g))
    /\ UNCHANGED <<entered, operation, manifest, requirements, pc, include_dependency_groups, dependencies,
                   warned, groups_to_process, visited, result, name, normalized,
                   renormalized>>

\* lines 178-189: a table without a string include-group, or any other value
ItemOther ==
    /\ AtItem
    /\ GroupArray[Top.item].t \notin {"str", "inc"}
    /\ stack' = WithTop([Top EXCEPT !.item = @ + 1])
    /\ UNCHANGED <<entered, operation, manifest, requirements, pc, include_dependency_groups, dependencies,
                   warned, groups_to_process, visited, result, name, normalized,
                   renormalized>>

\* line 192: the array is exhausted
GroupReturn ==
    /\ pc = "extract_group_deps"
    /\ Top.item >= 1
    /\ Top.item > Len(GroupArray)
    /\ ReturnOk
    /\ UNCHANGED <<entered, operation, manifest, requirements, include_dependency_groups, dependencies, warned,
                   groups_to_process, visited, name, normalized, renormalized>>

\* lines 22-27: the source paths and the ProjectInfo
ReturnProjectInfo ==
    /\ pc = "source_paths"
    /\ result' = [ok |-> TRUE, dependencies |-> dependencies,
                  source_paths |-> ExtractSourcePaths(manifest)]
    /\ pc' = "done"
    /\ UNCHANGED <<entered, operation, manifest, requirements, include_dependency_groups, dependencies, warned,
                   groups_to_process, visited, stack, name, normalized, renormalized>>

\* parse_requirements_txt, lines 270-293
ParseRequirements ==
    /\ pc = "parse_requirements_txt"
    /\ result' = [ok |-> TRUE, dependencies |-> ParseRequirementsTxt(requirements)]
    /\ pc' = "done"
    /\ UNCHANGED <<entered, operation, manifest, requirements, include_dependency_groups, dependencies, warned,
                   groups_to_process, visited, stack, name, normalized, renormalized>>

Init ==
    /\ operation \in {"parse_pyproject_toml", "parse_requirements_txt"}
    /\ pc = operation
    /\ IF operation = "parse_pyproject_toml"
       THEN manifest \in Manifests /\ requirements = <<>>
       ELSE manifest = EmptyManifest /\ requirements \in RequirementsFiles
    /\ include_dependency_groups = <<>>
    /\ dependencies = {}
    /\ warned = FALSE
    /\ groups_to_process = <<>>
    /\ visited = {}
    /\ stack = <<>>
    /\ entered = <<>>
    /\ result = Idle
    /\ name = Idle
    /\ normalized = Idle
    /\ renormalized = Idle

Next ==
    \/ ParsePyprojectToml
    \/ ExtractBaseDependencies
    \/ SkipDependencyGroups
    \/ EnterDependencyGroups
    \/ ResolveNextGroup
    \/ GroupsDone
    \/ GroupRevisited
    \/ GroupWithoutArray
    \/ GroupEntered
    \/ ItemString
    \/ ItemIncludeMissing
    \/ ItemInclude
    \/ ItemOther
    \/ GroupReturn
    \/ ReturnProjectInfo
    \/ ParseRequirements

Spec == Init /\ [][Next]_vars

(***************************************************************************)
(* extract_dependencies as a function of the manifest and the selection,   *)
(* for comparing the results of two manifests.                             *)
(***************************************************************************)
RECURSIVE ExtractGroupDeps(_, _, _, _)
RECURSIVE ExtractGroupItems(_, _, _, _, _)

\* extract_group_deps, lines 158-170: deps and seen are the values of dependencies
\* and visited at the call; the result carries their values at the return
ExtractGroupDeps(deps, groups, group_name, seen) ==
    IF group_name \in seen
    THEN [ok |-> FALSE, error |-> CircularDependencyGroup(group_name)]
    ELSE IF group_name \notin DOMAIN groups
    THEN [ok |-> TRUE, dependencies |-> deps, visited |-> seen \cup {group_name}]
    ELSE IF groups[group_name].t # "arr"
    THEN [ok |-> TRUE, dependencies |-> deps, visited |-> seen \cup {group_name}]
    ELSE ExtractGroupItems(deps, groups, group_name, seen \cup {group_name}, 1)

\* the loop of lines 172-192 from element i of the array on
ExtractGroupItems(deps, groups, group_name, seen, i) ==
    LET group_array == groups[group_name].items
        item == group_array[i]
        included == ExtractGroupDeps(deps, groups, item.g, seen)
    IN  IF i > Len(group_array)
        THEN [ok |-> TRUE, dependencies |-> deps, visited |-> seen]
        ELSE IF item.t = "str"
        THEN ExtractGroupItems(deps \cup {NormalizePackageName(ExtractPackageName(item.s))},
                               groups, group_name, seen, i + 1)
        ELSE IF item.t = "inc"
        THEN (IF item.g \notin DOMAIN groups
              THEN [ok |-> FALSE, error |-> MissingDependencyGroup(item.g, group_name)]
              ELSE IF included.ok
              THEN ExtractGroupItems(included.dependencies, groups, group_name,
                                     included.visited, i + 1)
              ELSE included)
        ELSE ExtractGroupItems(deps, groups, group_name, seen, i + 1)

RECURSIVE ExtractDependencyGroups(_, _, _)
\* the loop of lines 144-148 over the groups of order, each with a new visited set
ExtractDependencyGroups(deps, groups, order) ==
    LET resolved == ExtractGroupDeps(deps, groups, Head(order), {})
    IN  IF order = <<>>
        THEN [ok |-> TRUE, dependencies |-> deps]
        ELSE IF resolved.ok
        THEN ExtractDependencyGroups(resolved.dependencies, groups, Tail(order))
        ELSE resolved

\* extract_dependencies, lines 54-102: the results it may give, one for each order
\* of the loop
ExtractDependencies(toml_value, include_groups) ==
    IF include_groups = <<>>
    THEN {[ok |-> TRUE, dependencies |-> BaseDependencies(toml_value)]}
    ELSE IF toml_value.dependency_groups.t # "tbl"
    THEN {[ok |-> TRUE, dependencies |-> BaseDependencies(toml_value)]}
    ELSE {ExtractDependencyGroups(BaseDependencies(toml_value),
                                  toml_value.dependency_groups.groups, order) :
            order \in GroupOrders(toml_value.dependency_groups.groups, include_groups)}

\* lines 19-21: the selection of the manifest, then its dependencies
ManifestDependencies(toml_value) ==
    ExtractDependencies(toml_value, ExtractTachIncludeDependencyGroups(toml_value))

(***************************************************************************)
(* normalize_package_name applied to a name, and again to its result.      *)
(***************************************************************************)
NameAlphabet == {"A", "b", " ", "-", "_", BoldCapitalA}

Names ==
    SeqsUpTo(NameAlphabet, MaxNameLen) \cup {S_My_Package, S_my_package_sp, S_MY__PACKAGE}

NormalizeOnce ==
    /\ pc = "normalize_package_name"
    /\ normalized' = NormalizePackageName(name)
    /\ pc' = "normalized"
    /\ UNCHANGED <<entered, operation, manifest, requirements, include_dependency_groups, dependencies,
                   warned, groups_to_process, visited, stack, result, name, renormalized>>

NormalizeTwice ==
    /\ pc = "normalized"
    /\ renormalized' = NormalizePackageName(normalized)
    /\ pc' = "done"
    /\ UNCHANGED <<entered, operation, manifest, requirements, include_dependency_groups, dependencies,
                   warned, groups_to_process, visited, stack, result, name, normalized>>

InitNorm ==
    /\ operation = "normalize_package_name"
    /\ pc = operation
    /\ name \in Names
    /\ manifest = EmptyManifest
    /\ requirements = <<>>
    /\ include_dependency_groups = <<>>
    /\ dependencies = {}
    /\ warned = FALSE
    /\ groups_to_process = <<>>
    /\ visited = {}
    /\ stack = <<>>
    /\ entered = <<>>
    /\ result = Idle
    /\ normalized = Idle
    /\ renormalized = Idle

NextNorm == NormalizeOnce \/ NormalizeTwice

SpecNorm == InitNorm /\ [][NextNorm]_vars

(***************************************************************************)
(* extract_source_paths applied to a manifest.                             *)
(***************************************************************************)
PackageNames == {Str("pkg"), Str("src"), Other}

\* an element of tool.poetry.packages: its include and from keys
PoetryPackages ==
    [include : {None, Other, Str("pkg")}, from : {None, Str("lib"), Str("")}]

PathManifests ==
    { [EmptyManifest EXCEPT !.setuptools_packages = sp, !.poetry_packages = pp,
                            !.maturin_python_source = ms, !.src_exists = se] :
        sp \in {None, Other} \cup {Arr(l) : l \in SeqsUpTo(PackageNames, MaxPackages)},
        pp \in {None, Other} \cup {Arr(l) : l \in SeqsUpTo(PoetryPackages, MaxPackages)},
        ms \in {None, Other, Str("python")},
        se \in BOOLEAN }

ExtractPaths ==
    /\ pc = "extract_source_paths"
    /\ result' = ExtractSourcePaths(manifest)
    /\ pc' = "done"
    /\ UNCHANGED <<entered, operation, manifest, requirements, include_dependency_groups, dependencies,
                   warned, groups_to_process, visited, stack, name, normalized,
                   renormalized>>

InitPaths ==
    /\ operation = "extract_source_paths"
    /\ pc = operation
    /\ manifest \in PathManifests
    /\ requirements = <<>>
    /\ include_dependency_groups = <<>>
    /\ dependencies = {}
    /\ warned = FALSE
    /\ groups_to_process = <<>>
    /\ visited = {}
    /\ stack = <<>>
    /\ entered = <<>>
    /\ result = Idle
    /\ name = Idle
    /\ normalized = Idle
    /\ renormalized = Idle

NextPaths == ExtractPaths

SpecPaths == InitPaths /\ [][NextPaths]_vars

(***************************************************************************)
(* The vocabulary of the properties: the include graph of the manifest,    *)
(* read off the table and not off the traversal.                           *)
(***************************************************************************)
PyDone == operation = "parse_pyproject_toml" /\ pc = "done"

Succeeded == PyDone /\ result.ok

FailedWith(kind) == PyDone /\ ~result.ok /\ result.error.kind = kind

\* the names of the groups of the table, none when dependency-groups is no table
GroupKeys == IF HasGroupTable THEN DOMAIN GroupTable ELSE {}

\* the elements of a group, none when it is no key or no array
EntriesOf(g) ==
    IF g \in GroupKeys
    THEN (IF GroupTable[g].t = "arr" THEN Range(GroupTable[g].items) ELSE {})
    ELSE {}

\* the names the include-group entries of g give
DirectIncludes(g) == {e.g : e \in {x \in EntriesOf(g) : x.t = "inc"}}

\* the normalized literal entries of g
LiteralNames(g) ==
    {NormalizePackageName(ExtractPackageName(e.s)) : e \in {x \in EntriesOf(g) : x.t = "str"}}

RECURSIVE ReachableFrom(_)
\* the names reachable from those of S by include-group entries, S included
ReachableFrom(S) ==
    LET more == S \cup UNION {DirectIncludes(g) : g \in S}
    IN  IF more = S THEN S ELSE ReachableFrom(more)

\* g transitively includes itself
IncludesItself(g) == g \in ReachableFrom(DirectIncludes(g))

\* the selection as the manifest states it: the listed strings, "dev" when the key
\* is omitted
SelectionList ==
    LET key == manifest.include_dependency_groups
    IN  IF key.t = "arr"
        THEN LET strs == SelectSeq(key.items, LAMBDA v : v.t = "str")
             IN  [i \in DOMAIN strs |-> strs[i].s]
        ELSE <<"dev">>

\* the top-level group names the selection chooses
TopLevelNames ==
    IF "all" \in Range(SelectionList) THEN GroupKeys ELSE Range(SelectionList)

\* the selected groups of the table
SelectedGroups == TopLevelNames \cap GroupKeys

\* every include-group entry of a group reachable from g names a group of the table
AllIncludesExist(g) == ReachableFrom({g}) \subseteq GroupKeys

\* g reaches a group that transitively includes itself
ReachesCycle(g) == \E h \in ReachableFrom({g}) : IncludesItself(h)

(***************************************************************************)
(* C1                                                                      *)
(***************************************************************************)
\* C1 as stated: when a selected top-level group reaches, through include-group
\* entries that all name groups of the table, a group that transitively includes
\* itself, parse_pyproject_toml fails with CircularDependencyGroup.
C1_CycleAlwaysCircular ==
    (PyDone /\ \E g \in SelectedGroups : AllIncludesExist(g) /\ ReachesCycle(g))
        => FailedWith("CircularDependencyGroup")

\* C1 as amended: when a selected top-level group reaches a group that transitively
\* includes itself, the extraction never succeeds: it fails with
\* CircularDependencyGroup or, when an include-group entry naming no group is met
\* first, with MissingDependencyGroup; it is CircularDependencyGroup when every
\* include-group entry reachable from the selection names a group of the table. The
\* recursion is never deeper than the groups marked visited, plus one.
C1_CycleFails ==
    /\ (PyDone /\ \E g \in SelectedGroups : ReachesCycle(g))
          => \/ FailedWith("CircularDependencyGroup")
             \/ FailedWith("MissingDependencyGroup")
    /\ (PyDone /\ (\E g \in SelectedGroups : ReachesCycle(g))
               /\ \A g \in SelectedGroups : AllIncludesExist(g))
          => FailedWith("CircularDependencyGroup")
    /\ pc = "extract_group_deps" => Len(stack) <= Cardinality(visited) + 1

\* C1: a run that ended in CircularDependencyGroup on a table with a reachable cycle
C1_Witness ==
    /\ FailedWith("CircularDependencyGroup")
    /\ \E g \in SelectedGroups : ReachesCycle(g) /\ AllIncludesExist(g)
    /\ result.error.group \in GroupKeys
    /\ IncludesItself(result.error.group)

(***************************************************************************)
(* C2                                                                      *)
(***************************************************************************)
\* the innermost call is at an include-group entry naming no group of the table
AtMissingInclude ==
    /\ AtItem
    /\ GroupArray[Top.item].t = "inc"
    /\ GroupArray[Top.item].g \notin GroupKeys

\* the call made for a top-level name that is no key of the table
AtAbsentTopLevel ==
    /\ pc = "extract_group_deps"
    /\ Len(stack) = 1
    /\ Top.group_name \notin GroupKeys

C2_MissingNamesTheReference ==
    FailedWith("MissingDependencyGroup") =>
        /\ result.error.included \notin GroupKeys
        /\ result.error.from_group \in ReachableFrom(SelectedGroups) \cap GroupKeys
        /\ result.error.included \in DirectIncludes(result.error.from_group)

C2_AbsentIncludeFails ==
    AtMissingInclude =>
        /\ pc' = "done"
        /\ result' = [ok |-> FALSE,
                      error |-> MissingDependencyGroup(GroupArray[Top.item].g, Top.group_name)]

C2_AbsentTopLevelSkipped ==
    AtAbsentTopLevel =>
        /\ pc' = "groups_loop"
        /\ dependencies' = dependencies
        /\ result' = result

C2_OthersStillReturned ==
    Succeeded =>
        /\ BaseDependencies(manifest) \subseteq result.dependencies
        /\ \A g \in SelectedGroups : LiteralNames(g) \subseteq result.dependencies

\* C2: a name that is no key of the dependency-group table is an error exactly when
\* an include-group entry of a group being resolved gives it: that step fails with
\* MissingDependencyGroup, included the name and from_group the group holding the
\* entry, and no MissingDependencyGroup arises otherwise. A top-level name that is no
\* key adds nothing and raises nothing, and a successful result still holds the
\* primary/legacy names and the entries of the other selected groups.
C2_MissingOnlyWhenIncluded ==
    /\ [](C2_MissingNamesTheReference /\ C2_OthersStillReturned)
    /\ [][C2_AbsentIncludeFails /\ C2_AbsentTopLevelSkipped]_vars

\* C2: a successful run whose selection lists a name that is no key and a group
\* whose entries are in the result
C2_WitnessAbsentTopLevel ==
    /\ Succeeded
    /\ TopLevelNames \ GroupKeys # {}
    /\ \E g \in SelectedGroups : LiteralNames(g) # {} /\ LiteralNames(g) \subseteq result.dependencies

(***************************************************************************)
(* C3                                                                      *)
(***************************************************************************)
\* the key is omitted or is an array
SelectionStated == manifest.include_dependency_groups.t \in {"none", "arr"}

\* the reference set of C3
ReferenceDependencies ==
    BaseDependencies(manifest)
    \cup UNION {LiteralNames(h) : h \in ReachableFrom(TopLevelNames)}

\* C3: a successful extraction returns the names of the primary/legacy list united
\* with the normalized literal entries of every group reachable from a top-level name
\* of the selection ("dev" when the key is omitted, the listed names, every key of the
\* table when "all" is listed, none for the empty list): nothing more, nothing less.
C3_ResultIsReferenceSet ==
    (Succeeded /\ SelectionStated) => result.dependencies = ReferenceDependencies

\* C3: a successful run that returned the entries of a group reached only by inclusion
C3_Witness ==
    /\ Succeeded
    /\ SelectionStated
    /\ \E h \in ReachableFrom(TopLevelNames) \ TopLevelNames :
          /\ LiteralNames(h) # {}
          /\ LiteralNames(h) \subseteq result.dependencies
          /\ LiteralNames(h) \cap BaseDependencies(manifest) = {}

(***************************************************************************)
(* C4                                                                      *)
(***************************************************************************)
\* C4: CircularDependencyGroup is returned only when a group reachable from the
\* selection transitively includes itself; the diamond (top includes b and c, which
\* both include d) resolves to the entries of top, b, c and d.
C4_CircularOnlyForCycles ==
    /\ FailedWith("CircularDependencyGroup") => \E g \in SelectedGroups : ReachesCycle(g)
    /\ (PyDone /\ manifest = DiamondManifest)
          => (result.ok /\ result.dependencies = {S_pytest, S_ruff, S_mypy, S_coverage})

(***************************************************************************)
(* C5                                                                      *)
(***************************************************************************)
\* the top-level names in the order of the selection, every key when "all" is listed
\* (the order of the keys does not matter to the property)
SharedThirdGroup ==
    IF "all" \in Range(SelectionList)
    THEN \E g, h \in GroupKeys : g # h /\ (DirectIncludes(g) \cap DirectIncludes(h) \cap GroupKeys) \ {g, h} # {}
    ELSE \E i, j \in DOMAIN SelectionList :
            /\ i # j
            /\ (DirectIncludes(SelectionList[i]) \cap DirectIncludes(SelectionList[j]) \cap GroupKeys)
                  \ {SelectionList[i], SelectionList[j]} # {}

\* C5: when two or more selected top-level groups include the same third group and no
\* group transitively includes itself, the run does not end in CircularDependencyGroup.
C5_SharedGroupNeverCircular ==
    (PyDone /\ SharedThirdGroup /\ \A g \in GroupKeys : ~IncludesItself(g))
        => ~FailedWith("CircularDependencyGroup")

(***************************************************************************)
(* C6                                                                      *)
(***************************************************************************)
\* C6 as stated: the manifest of test_dependency_groups_default_dev, whose selection
\* key is omitted, yields exactly {"requests"}.
C6_DefaultYieldsRequestsOnly ==
    (PyDone /\ manifest = DefaultDevManifest)
        => (result.ok /\ result.dependencies = {S_requests})

\* C6 as amended: that manifest yields exactly {"requests", "ruff", "mypy"}: the
\* omitted key selects the group dev.
C6_DefaultYieldsDevGroup ==
    (PyDone /\ manifest = DefaultDevManifest)
        => (result.ok /\ result.dependencies = {S_requests, S_ruff, S_mypy})

\* C6: the run on that manifest has returned
C6_Witness == PyDone /\ manifest = DefaultDevManifest /\ result.ok

(***************************************************************************)
(* C7                                                                      *)
(***************************************************************************)
\* the dependency value extract_dependencies reads: project.dependencies when
\* present, else tool.poetry.dependencies
EffectiveDependencies ==
    IF manifest.project_dependencies.t # "none" THEN manifest.project_dependencies
    ELSE manifest.poetry_dependencies

\* the specifiers whose package name is on the exclusion list
ExcludedSpecifiers(strs) == {x \in strs : ExtractPackageName(x) \in EXCLUDED_DEPS}

\* C7: an entry of the primary list, of the legacy table or of a requirements file
\* whose package name is python, poetry or poetry-core contributes no name; such a
\* name is in the result only when a resolved dependency group contributes it.
C7_ExcludedNeverContributed ==
    /\ (operation = "parse_pyproject_toml" /\ pc = "dependency_groups")
          => \A x \in ExcludedSpecifiers(DepStrings(EffectiveDependencies)) :
                NormalizePackageName(ExtractPackageName(x)) \notin dependencies
    /\ (operation = "parse_requirements_txt" /\ pc = "done")
          => \A x \in ExcludedSpecifiers({Trim(l) : l \in Range(requirements)}) :
                NormalizePackageName(ExtractPackageName(x)) \notin result.dependencies
    /\ Succeeded
          => \A x \in EXCLUDED_DEPS :
                NormalizePackageName(x) \in result.dependencies
                    => \E h \in ReachableFrom(TopLevelNames) :
                          NormalizePackageName(x) \in LiteralNames(h)

(***************************************************************************)
(* C8                                                                      *)
(***************************************************************************)
\* the normalized package names of the strings of a dependency value
NamesOf(deps) == {NormalizePackageName(ExtractPackageName(x)) : x \in DepStrings(deps)}

\* the names the exclusion list may remove, in either spelling
ExclusionNames == EXCLUDED_DEPS \cup {NormalizePackageName(x) : x \in EXCLUDED_DEPS}

AfterBase == operation = "parse_pyproject_toml" /\ pc = "dependency_groups"

HasProjectDeps == manifest.project_dependencies.t # "none"

HasPoetryDeps == manifest.poetry_dependencies.t # "none"

\* C8: with project.dependencies in the manifest the names of the base extraction
\* come from it alone, whether or not tool.poetry.dependencies is there too (then the
\* warning is printed and the extraction still succeeds); with
\* tool.poetry.dependencies alone its entries are used; an array of specifiers and a
\* table keyed by the same strings give the same names.
C8_PrimaryBeforeLegacy ==
    /\ AfterBase =>
          /\ dependencies \subseteq NamesOf(EffectiveDependencies)
          /\ NamesOf(EffectiveDependencies) \ ExclusionNames \subseteq dependencies
          /\ warned = (HasProjectDeps /\ HasPoetryDeps)
          /\ EffectiveDependencies.t = "arr" =>
                dependencies = ExtractDepsFromValue({}, Tbl(DepStrings(EffectiveDependencies)))
          /\ EffectiveDependencies.t = "tbl" =>
                \A order \in Orders(EffectiveDependencies.keys) :
                    dependencies = ExtractDepsFromValue({}, StrArr(order))
    /\ (PyDone /\ ~HasGroupTable) => result.ok

\* C8: both schemas are present, the warning was printed, and a name of the legacy
\* table is not in the set
C8_Witness ==
    /\ AfterBase
    /\ HasProjectDeps
    /\ HasPoetryDeps
    /\ warned
    /\ dependencies # {}
    /\ NamesOf(manifest.poetry_dependencies) \ (dependencies \cup ExclusionNames) # {}

(***************************************************************************)
(* C9                                                                      *)
(***************************************************************************)
NormDone == operation = "normalize_package_name" /\ pc = "done"

\* no whitespace, no hyphen, no underscore at either end, no two underscores in a row
SeparatorsCollapsed(s) ==
    /\ \A i \in DOMAIN s : ~IsWhitespace(s[i]) /\ s[i] # "-"
    /\ s # <<>> => s[1] # "_" /\ s[Len(s)] # "_"
    /\ \A i \in 1..(Len(s) - 1) : ~(s[i] = "_" /\ s[i + 1] = "_")

ExamplesNormalized ==
    name \in {S_My_Package, S_my_package_sp, S_MY__PACKAGE} => normalized = S_my_package

\* C9 as stated: normalize_package_name is idempotent, and its result has no
\* uppercase letter, no whitespace, no hyphen, no leading or trailing underscore and
\* no two adjacent underscores.
C9_NormalizedHasNoUppercase ==
    NormDone =>
        /\ renormalized = normalized
        /\ \A i \in DOMAIN normalized : ~IsUppercase(normalized[i])
        /\ SeparatorsCollapsed(normalized)
        /\ ExamplesNormalized

\* C9 as amended: normalize_package_name is idempotent, and its result has no
\* uppercase letter that has a lowercase form, no whitespace, no hyphen, no leading
\* or trailing underscore and no two adjacent underscores.
C9_Idempotent ==
    NormDone =>
        /\ renormalized = normalized
        /\ \A i \in DOMAIN normalized :
              ~(IsUppercase(normalized[i]) /\ HasLowercaseMapping(normalized[i]))
        /\ SeparatorsCollapsed(normalized)
        /\ ExamplesNormalized

\* C9: a name with an uppercase letter and a run of separators was normalized twice
C9_Witness ==
    /\ NormDone
    /\ \E i \in DOMAIN name : HasLowercaseMapping(name[i])
    /\ \E i \in 1..(Len(name) - 1) : IsSeparator(name[i]) /\ IsSeparator(name[i + 1])
    /\ normalized # <<>>
    /\ normalized # name

(***************************************************************************)
(* C10                                                                     *)
(***************************************************************************)
PathsDone == operation = "extract_source_paths" /\ pc = "done"

\* the string elements of an array value, in order; none for another value
StringsOf(value) ==
    IF value.t = "arr"
    THEN LET strs == SelectSeq(value.items, LAMBDA v : v.t = "str")
         IN  [i \in DOMAIN strs |-> strs[i].s]
    ELSE <<>>

\* root/package for the packages of setuptools
SetuptoolsReference ==
    LET pkgs == StringsOf(manifest.setuptools_packages)
    IN  [i \in DOMAIN pkgs |-> PathJoin(<<"root">>, pkgs[i])]

\* root/from/include for the packages of poetry that name an include
PoetryReference ==
    IF manifest.poetry_packages.t = "arr"
    THEN LET named == SelectSeq(manifest.poetry_packages.items,
                                LAMBDA package : package.include.t = "str")
         IN  [i \in DOMAIN named |->
                IF named[i].from.t = "str"
                THEN PathJoin(PathJoin(<<"root">>, named[i].from.s), named[i].include.s)
                ELSE <<"root", named[i].include.s>>]
    ELSE <<>>

\* root/python_source for maturin
MaturinReference ==
    IF manifest.maturin_python_source.t = "str"
    THEN <<PathJoin(<<"root">>, manifest.maturin_python_source.s)>>
    ELSE <<>>

ConventionReference == SetuptoolsReference \o PoetryReference \o MaturinReference

\* C10: extract_source_paths returns the paths of the conventions that give one, in
\* the order setuptools, poetry, maturin; when none gives a path the result is the
\* fallback alone, root/src if it exists and else root, and the fallback is not added
\* otherwise; the result is never empty.
C10_ConventionsThenFallback ==
    PathsDone =>
        /\ ConventionReference # <<>> => result = ConventionReference
        /\ ConventionReference = <<>> =>
              result = <<IF manifest.src_exists THEN <<"root", "src">> ELSE <<"root">>>>
        /\ result # <<>>

\* C10: a manifest in which each of the three conventions gave a path
C10_WitnessConventions ==
    /\ PathsDone
    /\ SetuptoolsReference # <<>>
    /\ PoetryReference # <<>>
    /\ MaturinReference # <<>>
    /\ Len(result) >= 3

(***************************************************************************)
(* C11                                                                     *)
(***************************************************************************)
\* within the current top-level resolution no group was entered twice, and no more
\* bodies were entered than the table has groups
EnteredAtMostOnce ==
    /\ \A i, j \in DOMAIN entered : entered[i] = entered[j] => i = j
    /\ Len(entered) <= Cardinality(GroupKeys)

RECURSIVE Sum(_, _)
\* the sum of f over the finite set S
Sum(f, S) ==
    IF S = {} THEN 0
    ELSE LET x == CHOOSE y \in S : TRUE IN f[x] + Sum(f, S \ {x})

\* the groups of the table that are arrays
ArrayGroups == {g \in GroupKeys : GroupTable[g].t = "arr"}

\* the steps left for a group not yet entered: two per element, the entry, the return
BodyCost == [g \in ArrayGroups |-> 2 * Len(GroupTable[g].items) + 2]

\* the steps left for an active call: its entry when it has not run line 158, else
\* two per element left and the return
FrameCost(frame) ==
    IF frame.item = 0 THEN 1
    ELSE 2 * (Len(GroupTable[frame.group_name].items) - frame.item + 1) + 1

\* a bound on the steps of one top-level resolution
ResolutionCost == Sum(BodyCost, ArrayGroups) + 2

\* a bound on the steps of the loop of line 144
LoopCost == (Len(SelectionList) + Cardinality(GroupKeys)) * ResolutionCost

\* a natural number that bounds the steps the run has left
Variant ==
    CASE pc = "parse_pyproject_toml" -> LoopCost + 5
      [] pc = "extract_dependencies" -> LoopCost + 4
      [] pc = "dependency_groups" -> LoopCost + 3
      [] pc = "groups_loop" -> Len(groups_to_process) * ResolutionCost + 2
      [] pc = "extract_group_deps" ->
            Len(groups_to_process) * ResolutionCost + 2
            + Sum(BodyCost, ArrayGroups \ visited)
            + Sum([i \in DOMAIN stack |-> FrameCost(stack[i])], DOMAIN stack)
      [] pc = "source_paths" -> 1
      [] pc = "parse_requirements_txt" -> 1
      [] pc = "done" -> 0

\* a step other than ItemString can be taken
OtherStepEnabled ==
    ENABLED (\/ ParsePyprojectToml \/ ExtractBaseDependencies \/ SkipDependencyGroups
             \/ EnterDependencyGroups \/ ResolveNextGroup \/ GroupsDone \/ GroupRevisited
             \/ GroupWithoutArray \/ GroupEntered \/ ItemIncludeMissing \/ ItemInclude
             \/ ItemOther \/ GroupReturn \/ ReturnProjectInfo \/ ParseRequirements)

\* the run can take a step; ItemString, whose other conjuncts give the next values
\* of variables, can be taken exactly when AtStringItem holds
CanStep == AtStringItem \/ OtherStepEnabled

\* C11: every run ends, for cyclic include graphs too: a run that has not returned
\* can take a step, and every step lowers a natural number; and within one top-level
\* resolution the body of a group is entered at most once, so at most as many bodies
\* as the table has groups.
C11_TerminatesEnteringOnce ==
    /\ [](EnteredAtMostOnce /\ Variant >= 0 /\ (pc = "done" \/ CanStep))
    /\ [][Variant' < Variant]_vars

\* C11: a run on a table with a cycle has ended after entering two group bodies in
\* its last top-level resolution
C11_Witness ==
    /\ PyDone
    /\ \E g \in SelectedGroups : ReachesCycle(g)
    /\ Len(entered) >= 2

(***************************************************************************)
(* C12                                                                     *)
(***************************************************************************)
\* the names the selection chooses as top-level targets or reaches by include-group
\* entries, keys of the table or not
Reached == ReachableFrom(TopLevelNames)

\* the other names: the other keys of the table, and the group names of the
\* generated tables that are no keys
Unreached == (GraphGroups \cup GroupKeys) \ Reached

\* an unreached name keeps what the table gives it
Same == [t |-> "same"]

\* what a second table may give to the unreached name u: no group, a group with an
\* entry of its own that includes itself, a group that includes a group of no table
VariantBodies(u) == {None, Arr(<<Str(S_mypy), Inc(u)>>), Arr(<<Inc("zz")>>)}

VariantChoices == {c \in [Unreached -> {Same} \cup UNION {VariantBodies(u) : u \in Unreached}] :
                      \A u \in Unreached : c[u] \in {Same} \cup VariantBodies(u)}

\* the table that choice c makes of the table of the manifest: the reached names
\* as they are, present or not
VariantTable(c) ==
    LET keys == (GroupKeys \ Unreached)
                \cup {u \in Unreached : IF c[u].t = "same" THEN u \in GroupKeys
                                         ELSE c[u].t # "none"}
    IN  [g \in keys |-> IF g \in Unreached
                        THEN (IF c[g].t = "same" THEN GroupTable[g] ELSE c[g])
                        ELSE GroupTable[g]]

\* the tables that agree with the table of the manifest on every reached name; for
\* the empty selection, any value of dependency-groups. A selection listing "all"
\* selects every key, so that every group of a table is reached.
AgreeingTables ==
    IF "all" \in Range(SelectionList)
    THEN {manifest.dependency_groups}
    ELSE {Groups(VariantTable(c)) : c \in VariantChoices}
         \cup (IF SelectionList = <<>> THEN {None, Other} ELSE {})
         \cup {manifest.dependency_groups}

\* the result of the run as extract_dependencies gave it
DependenciesResult ==
    IF result.ok THEN [ok |-> TRUE, dependencies |-> result.dependencies] ELSE result

\* C12: the groups that the selection neither names nor reaches by include-group
\* entries never influence the outcome: on every table that agrees with the table of
\* the manifest on the reached names, extract_dependencies gives what the run gave, the
\* same set or the same error, whether the other groups are absent, include themselves
\* or include absent groups; and with the empty selection no group is resolved and the
\* run succeeds with the names of the primary/legacy list.
C12_UnreachedGroupsNeverMatter ==
    /\ PyDone =>
          \A d \in AgreeingTables :
              LET results == ManifestDependencies([manifest EXCEPT !.dependency_groups = d])
              IN  IF "all" \in Range(SelectionList)
                  THEN DependenciesResult \in results
                  ELSE results = {DependenciesResult}
    /\ (operation = "parse_pyproject_toml" /\ SelectionList = <<>>) =>
          /\ pc \notin {"groups_loop", "extract_group_deps"}
          /\ entered = <<>>
          /\ PyDone => (result.ok /\ result.dependencies = BaseDependencies(manifest))

\* C12: a successful run with a stated selection on a table with an unreached group
\* that includes itself or includes a group of no table
C12_Witness ==
    /\ Succeeded
    /\ SelectionList # <<>>
    /\ "all" \notin Range(SelectionList)
    /\ Reached \cap GroupKeys # {}
    /\ \E u \in Unreached \cap GroupKeys :
          IncludesItself(u) \/ ~(DirectIncludes(u) \subseteq GroupKeys)

====
